---- MODULE Spec2Model ----
(***************************************************************************)
(* Model of the LED component (src/led.c, src/include/led.h): the channel  *)
(* registry (leds_num, is_installed), the led_t instances, the foreground  *)
(* functions led_init / led_start / led_stop / led_set and the fade-end    *)
(* interrupt callback fade_end_cb, run against a mock of the LEDC driver   *)
(* that records every call it receives.                                    *)
(***************************************************************************)
EXTENDS Integers, Sequences, FiniteSets, TLC

VARIABLES
    leds_num,       \* led.c:59  static uint8_t leds_num
    is_installed,   \* led.c:58  static bool is_installed
    me,             \* the caller's led_t objects, by handle
    registered,     \* handles whose led_init reached leds_num++ (led.c:167)
    drv,            \* state of the LEDC driver mock
    aborted,        \* ESP_ERROR_CHECK (led.c:160) aborted the program
    lastop,         \* the last step: operation, handle, arguments, return code
    calls,          \* the driver calls issued by the last step, in order
    fg,             \* per handle: the last foreground call made on it
    ramps,          \* per handle: ramp-set calls since its last foreground call began
    fadeUsed,       \* some led_init / led_set call has requested FADE_MODE
    task            \* per task: the statement of led.c it stands at, its locals

vars == <<leds_num, is_installed, me, registered, drv, aborted, lastop, calls,
          fg, ramps, fadeUsed, task>>

----------------------------------------------------------------------------
(* Program constants *)

LED_MAX_NUM == 8
DUTY_SCALE == 80
MAX_INTENSITY == 100
GPIO_NUM_0 == 0
GPIO_NUM_MAX == 49      \* driver/gpio.h of the target; only the range test reads it

FADE_MODE == "FADE_MODE"              \* led.h:55, enum value 0
CONTINUOUS_MODE == "CONTINUOUS_MODE"  \* led.h:56, enum value 1
BAD_MODE == "BAD_MODE"                \* any other value of the enum's type

LEDC_INTR_DISABLE == "LEDC_INTR_DISABLE"
LEDC_INTR_FADE_END == "LEDC_INTR_FADE_END"

ESP_OK == "ESP_OK"
ESP_FAIL == "ESP_FAIL"
ESP_ERR_NO_MEM == "ESP_ERR_NO_MEM"
ESP_ERR_INVALID_ARG == "ESP_ERR_INVALID_ARG"
ESP_ERR_INVALID_STATE == "ESP_ERR_INVALID_STATE"
ABORT == "abort"

(* Bounds of the model *)

MaxRamps == 3       \* ramp-set calls remembered per handle
MaxDrvCalls == 2    \* timer-config / install calls counted before init stops

(* Input sets *)

Handles == 1..(LED_MAX_NUM + 1)
Channels == 0..(LED_MAX_NUM - 1)
NoHandle == 0
NoChannel == -1
GPIO_OK == 2
Modes == {FADE_MODE, CONTINUOUS_MODE, BAD_MODE}
Times == {500}
Intensities == {25, 100, 101}
\* the <<gpio, mode, time, intensity>> arguments passed to led_init and led_set
Requests ==
    {<<GPIO_OK, m, t, i>> : m \in {FADE_MODE, CONTINUOUS_MODE}, t \in Times,
                            i \in Intensities}
    \cup {<<GPIO_NUM_MAX, FADE_MODE, t, 25>> : t \in Times}
    \cup {<<GPIO_OK, BAD_MODE, t, 25>> : t \in Times}
Uninit == "uninitialized"

\* the fault sets of an operation that calls the functions fns: no call is
\* rejected, or the calls of one function are
Faults(fns) == {{}} \cup {{f} : f \in fns}
InitFns == {"malloc", "ledc_channel_config", "ledc_stop", "ledc_fade_func_install",
            "ledc_cb_register"}
StartFns == {"ledc_set_fade_with_time", "ledc_fade_start", "ledc_set_duty",
             "ledc_update_duty"}
StopFns == {"ledc_set_duty", "ledc_update_duty", "ledc_stop"}
SetFns == {"ledc_stop", "ledc_fade_func_install", "ledc_cb_register"} \cup StartFns
CbFns == {"ledc_set_fade_with_time", "ledc_fade_start"}
InitFaults == Faults(InitFns)
StartFaults == Faults(StartFns)
StopFaults == Faults(StopFns)
SetFaults == Faults(SetFns)
CbFaults == Faults(CbFns)

----------------------------------------------------------------------------
(* The LEDC driver mock.  A context c = [d, log] carries the driver state  *)
(* d and the log of the calls issued so far by the running operation; F is *)
(* the set of driver functions that reject their call in this operation.   *)

Entry(fn, ch, duty, time, ret) ==
    [fn |-> fn, ch |-> ch, duty |-> duty, time |-> time, ret |-> ret]

Logged(c, d, e) == [ret |-> e.ret, c |-> [d |-> d, log |-> Append(c.log, e)]]

Rejects(fn, F) == fn \in F

ledc_timer_config(c, F) ==
    Logged(c, [c.d EXCEPT !.timer_cfgs = @ + 1],
           Entry("ledc_timer_config", NoChannel, 0, 0, ESP_OK))

ledc_channel_config(c, ch, F) ==
    IF Rejects("ledc_channel_config", F)
    THEN Logged(c, c.d, Entry("ledc_channel_config", ch, 0, 0, ESP_ERR_INVALID_ARG))
    ELSE Logged(c, c.d, Entry("ledc_channel_config", ch, 0, 0, ESP_OK))

\* ledc_stop halts the ramp in flight; a fade-end interrupt that was raised
\* before the call stays pending and is still delivered.
ledc_stop(c, ch, F) ==
    IF Rejects("ledc_stop", F)
    THEN Logged(c, c.d, Entry("ledc_stop", ch, 0, 0, ESP_ERR_INVALID_ARG))
    ELSE Logged(c, [c.d EXCEPT !.inflight = @ \ {ch}],
                Entry("ledc_stop", ch, 0, 0, ESP_OK))

\* The service may have been installed by the application before the first
\* led_init (Init): the driver then answers ESP_ERR_INVALID_STATE.
ledc_fade_func_install(c, F) ==
    IF c.d.installed
    THEN Logged(c, [c.d EXCEPT !.install_calls = @ + 1],
                Entry("ledc_fade_func_install", NoChannel, 0, 0, ESP_ERR_INVALID_STATE))
    ELSE IF Rejects("ledc_fade_func_install", F)
    THEN Logged(c, [c.d EXCEPT !.install_calls = @ + 1],
                Entry("ledc_fade_func_install", NoChannel, 0, 0, ESP_ERR_NO_MEM))
    ELSE Logged(c, [c.d EXCEPT !.install_calls = @ + 1, !.installed = TRUE],
                Entry("ledc_fade_func_install", NoChannel, 0, 0, ESP_OK))

ledc_cb_register(c, ch, h, F) ==
    IF Rejects("ledc_cb_register", F) \/ ~c.d.installed
    THEN Logged(c, c.d, Entry("ledc_cb_register", ch, 0, 0, ESP_ERR_INVALID_STATE))
    ELSE Logged(c, [c.d EXCEPT !.cb[ch] = h],
                Entry("ledc_cb_register", ch, 0, 0, ESP_OK))

ledc_set_fade_with_time(c, ch, duty, time, F) ==
    IF Rejects("ledc_set_fade_with_time", F) \/ ~c.d.installed
    THEN Logged(c, c.d, Entry("ledc_set_fade_with_time", ch, duty, time,
                              ESP_ERR_INVALID_STATE))
    ELSE Logged(c, c.d, Entry("ledc_set_fade_with_time", ch, duty, time, ESP_OK))

\* doubled records that a ramp was started on a channel whose previous ramp
\* had neither completed nor been stopped.
ledc_fade_start(c, ch, F) ==
    IF Rejects("ledc_fade_start", F) \/ ~c.d.installed
    THEN Logged(c, c.d, Entry("ledc_fade_start", ch, 0, 0, ESP_ERR_INVALID_STATE))
    ELSE Logged(c, [c.d EXCEPT !.inflight = @ \cup {ch},
                               !.doubled = @ \/ (ch \in c.d.inflight)],
                Entry("ledc_fade_start", ch, 0, 0, ESP_OK))

ledc_set_duty(c, ch, duty, F) ==
    IF Rejects("ledc_set_duty", F)
    THEN Logged(c, c.d, Entry("ledc_set_duty", ch, duty, 0, ESP_ERR_INVALID_ARG))
    ELSE Logged(c, c.d, Entry("ledc_set_duty", ch, duty, 0, ESP_OK))

ledc_update_duty(c, ch, F) ==
    IF Rejects("ledc_update_duty", F)
    THEN Logged(c, c.d, Entry("ledc_update_duty", ch, 0, 0, ESP_ERR_INVALID_ARG))
    ELSE Logged(c, c.d, Entry("ledc_update_duty", ch, 0, 0, ESP_OK))

----------------------------------------------------------------------------
(* Pure helpers of led.c *)

\* the capacity test off by one: a ninth instance is let in
CapacityReached_OffByOne(n) == n > LED_MAX_NUM

\* led.c:69  leds_num >= LED_MAX_NUM
CapacityReached(n) == n >= LED_MAX_NUM

\* the channel taken from the counter less one: index 0 is handed out twice
NextChannel_Stale(n) == IF n = 0 THEN 0 ELSE n - 1

\* led.c:85  me->ledc_config->channel = leds_num
NextChannel(n) == n

\* led.c:167  leds_num++
IncrementLeds(n) == n + 1

\* the intensity test off by one: 101 is accepted
IntensityInvalid_OffByOne(intensity) == intensity > MAX_INTENSITY + 1

\* led.c:89, led.c:287  intensity > 100
IntensityInvalid(intensity) == intensity > MAX_INTENSITY

\* led.c:95, led.c:293  intensity * 80
DutyOf(intensity) == intensity * DUTY_SCALE

\* led.c:97, led.c:279  gpio < GPIO_NUM_0 || gpio >= GPIO_NUM_MAX
GpioInvalid(gpio) == gpio < GPIO_NUM_0 \/ gpio >= GPIO_NUM_MAX

\* led.c:105-110, led.c:303-308  interrupt type chosen from a mode value
IntrTypeOf(mode) ==
    IF mode = CONTINUOUS_MODE THEN LEDC_INTR_DISABLE ELSE LEDC_INTR_FADE_END

\* the target taken from the duty whatever the toggle state is
FadeTarget_Stuck(m) == m.duty

\* led.c:374  led->state ? 0 : led->ledc_config->duty
FadeTarget(m) == IF m.state THEN 0 ELSE m.duty

Result(ret, m, c) == [ret |-> ret, me |-> m, c |-> c]

----------------------------------------------------------------------------
(* The handlers.  A handler takes the led_t record m, the context c and   *)
(* the fault set F and yields its return code, the record and the context  *)
(* it leaves.  The result of each driver call is handed on as an argument  *)
(* (a, b, st, i, ...) to the operator that models the code after the call. *)

\* return the code of the driver call b
Return(m, b) == Result(b.ret, m, b.c)

(* led_start, led.c:173-235 *)

\* led.c:184-198, after ledc_set_fade_with_time returned a
led_start_fade(m, a, F) ==
    IF a.ret # ESP_OK THEN Return(m, a)
    ELSE Return(m, ledc_fade_start(a.c, m.channel, F))

\* the duty update issued on channel 0 whatever the instance's channel is
led_start_continuous_Channel0(m, a, F) ==
    IF a.ret # ESP_OK THEN Return(m, a)
    ELSE Return(m, ledc_update_duty(a.c, 0, F))

\* led.c:208-221, after ledc_set_duty returned a
led_start_continuous(m, a, F) ==
    IF a.ret # ESP_OK THEN Return(m, a)
    ELSE Return(m, ledc_update_duty(a.c, m.channel, F))

led_start(m, c, F) ==
    IF m.mode = FADE_MODE
    THEN led_start_fade(m, ledc_set_fade_with_time(c, m.channel, m.duty, m.time, F), F)
    ELSE IF m.mode = CONTINUOUS_MODE
    THEN led_start_continuous(m, ledc_set_duty(c, m.channel, m.duty, F), F)
    ELSE Result(ESP_ERR_INVALID_ARG, m, c)

(* led_stop, led.c:237-272 *)

\* led.c:254-271, after ledc_update_duty returned b
led_stop_update(m, b, F) ==
    IF b.ret # ESP_OK THEN Return(m, b)
    ELSE Return(m, ledc_stop(b.c, m.channel, F))

\* led.c:245-271, after ledc_set_duty returned a
led_stop_duty(m, a, F) ==
    IF a.ret # ESP_OK THEN Return(m, a)
    ELSE led_stop_update(m, ledc_update_duty(a.c, m.channel, F), F)

led_stop(m, c, F) == led_stop_duty(m, ledc_set_duty(c, m.channel, 0, F), F)

(* fade_end_cb, led.c:366-385: both driver results are ignored *)

\* the callback without led.c:382: the toggle state is never flipped
fade_end_cb_start_NoFlip(m, a, F) ==
    Result(ESP_OK, m, ledc_fade_start(a.c, m.channel, F).c)

\* led.c:377-384, after ledc_set_fade_with_time returned a
fade_end_cb_start(m, a, F) ==
    Result(ESP_OK, [m EXCEPT !.state = ~m.state],
           ledc_fade_start(a.c, m.channel, F).c)

fade_end_cb(m, c, F) ==
    fade_end_cb_start(m, ledc_set_fade_with_time(c, m.channel, FadeTarget(m),
                                                 m.time, F), F)

(* led_set, led.c:274-363.  The result also carries is_installed.  The    *)
(* value of ledc_cb_register is dropped (led.c:340): the test at led.c:345 *)
(* reads the ret left by ledc_stop or ledc_fade_func_install, which is     *)
(* ESP_OK on every path that reaches it.                                   *)

SetResult(ret, m, c, inst) == [ret |-> ret, me |-> m, c |-> c, inst |-> inst]

\* led.c:353-362, led_start returned s
led_set_started(s, inst) == SetResult(s.ret, s.me, s.c, inst)

\* led.c:334-362
led_set_register(m, h, c, inst, F) ==
    IF m.intr_type = LEDC_INTR_FADE_END /\ inst
    THEN led_set_started(led_start(m, ledc_cb_register(c, m.channel, h, F).c, F), inst)
    ELSE led_set_started(led_start(m, c, F), inst)

\* led.c:325-362, after ledc_fade_func_install returned i
led_set_installed(m, h, i, inst, F) ==
    IF i.ret # ESP_OK THEN SetResult(i.ret, m, i.c, inst)
    ELSE led_set_register(m, h, i.c, TRUE, F)

\* led.c:315-362, after ledc_stop returned st
led_set_stopped(m, h, st, inst, F) ==
    IF st.ret # ESP_OK THEN SetResult(st.ret, m, st.c, inst)
    ELSE IF m.intr_type = LEDC_INTR_FADE_END /\ ~inst
    THEN led_set_installed(m, h, ledc_fade_func_install(st.c, F), inst, F)
    ELSE led_set_register(m, h, st.c, inst, F)

\* led.c:301-362, the arguments have been accepted
led_set_hw(m, h, c, inst, F) ==
    led_set_stopped(m, h, ledc_stop(c, m.channel, F), inst, F)

led_set(m, h, gpio, mode, time, intensity, c, inst, F) ==
    IF GpioInvalid(gpio) THEN SetResult(ESP_ERR_INVALID_ARG, m, c, inst)
    ELSE IF IntensityInvalid(intensity)
    THEN SetResult(ESP_ERR_INVALID_ARG, [m EXCEPT !.gpio_num = gpio], c, inst)
    ELSE IF mode # FADE_MODE /\ mode # CONTINUOUS_MODE
    THEN SetResult(ESP_ERR_INVALID_ARG,
                   [m EXCEPT !.gpio_num = gpio, !.duty = DutyOf(intensity)], c, inst)
    ELSE led_set_hw([m EXCEPT !.gpio_num = gpio,
                              !.duty = DutyOf(intensity),
                              !.mode = mode,
                              !.intr_type = IntrTypeOf(mode),
                              !.time = time],
                    h, c, inst, F)

(* led_init, led.c:62-171.  The result carries the new leds_num and       *)
(* is_installed; ret = ABORT stands for the abort() of ESP_ERROR_CHECK.    *)
(* prior is the value the caller's object holds in its mode field on      *)
(* entry: led.c:105 reads it before led.c:114 stores the mode argument.    *)

InitResult(ret, m, c, inst, n) ==
    [ret |-> ret, me |-> m, c |-> c, inst |-> inst, n |-> n]

\* led.c:160-170, after ledc_cb_register returned r
led_init_registered(m, r, inst, n, ret) ==
    IF r.ret # ESP_OK THEN InitResult(ABORT, m, r.c, inst, n)
    ELSE InitResult(ret, m, r.c, inst, IncrementLeds(n))

\* led.c:154-170; ret is the code led.c:170 returns
led_init_register(m, h, c, inst, n, ret, F) ==
    IF m.intr_type = LEDC_INTR_FADE_END /\ inst
    THEN led_init_registered(m, ledc_cb_register(c, m.channel, h, F), inst, n, ret)
    ELSE InitResult(ret, m, c, inst, IncrementLeds(n))

\* led.c:145-170, after ledc_fade_func_install returned i
led_init_installed(m, h, i, inst, n, F) ==
    IF i.ret # ESP_OK /\ i.ret # ESP_ERR_INVALID_STATE
    THEN InitResult(i.ret, m, i.c, inst, n)
    ELSE led_init_register(m, h, i.c, TRUE, n, i.ret, F)

\* led.c:134-170, after ledc_channel_config returned cc
led_init_configured(m, h, cc, inst, n, F) ==
    IF cc.ret # ESP_OK THEN InitResult(cc.ret, m, cc.c, inst, n)
    ELSE IF m.intr_type = LEDC_INTR_FADE_END /\ ~inst
    THEN led_init_installed(m, h,
             ledc_fade_func_install(ledc_stop(cc.c, m.channel, F).c, F), inst, n, F)
    ELSE led_init_register(m, h, ledc_stop(cc.c, m.channel, F).c, inst, n, cc.ret, F)

\* led.c:118-170
led_init_hw(m, h, c, inst, n, F) ==
    IF n = 0
    THEN led_init_configured(m, h,
             ledc_channel_config(ledc_timer_config(c, F).c, m.channel, F), inst, n, F)
    ELSE led_init_configured(m, h, ledc_channel_config(c, m.channel, F), inst, n, F)

led_init(m, prior, h, gpio, mode, time, intensity, c, inst, n, F) ==
    IF CapacityReached(n) THEN InitResult(ESP_FAIL, m, c, inst, n)
    ELSE IF Rejects("malloc", F)
    THEN InitResult(ESP_ERR_NO_MEM, [m EXCEPT !.alloc = FALSE], c, inst, n)
    ELSE IF IntensityInvalid(intensity)
    THEN InitResult(ESP_ERR_INVALID_ARG,
                    [m EXCEPT !.alloc = TRUE, !.channel = NextChannel(n)], c, inst, n)
    ELSE IF GpioInvalid(gpio)
    THEN InitResult(ESP_ERR_INVALID_ARG,
                    [m EXCEPT !.alloc = TRUE, !.channel = NextChannel(n),
                              !.duty = DutyOf(intensity)], c, inst, n)
    ELSE led_init_hw([m EXCEPT !.alloc = TRUE,
                               !.channel = NextChannel(n),
                               !.duty = DutyOf(intensity),
                               !.gpio_num = gpio,
                               !.intr_type = IntrTypeOf(prior),
                               !.mode = mode,
                               !.time = time,
                               !.state = FALSE],
                     h, c, inst, n, F)

----------------------------------------------------------------------------
(* State machine.  Each action binds the handler's result r once and      *)
(* copies it into the variables.                                           *)

FreshLed ==
    [alloc |-> FALSE, channel |-> NoChannel, duty |-> 0, gpio_num |-> NoChannel,
     intr_type |-> LEDC_INTR_DISABLE, mode |-> Uninit, time |-> 0, state |-> FALSE]

\* a foreground call as remembered per handle: its name, whether it returned
\* ESP_OK, and the toggle state it found
NoCall == [op |-> "none", ok |-> FALSE, state0 |-> FALSE]

FgCall(op, ret, state0) == [op |-> op, ok |-> (ret = ESP_OK), state0 |-> state0]

\* the last operation: name, handle, requested mode and intensity, return code
Op(op, h, mode, intensity, ret) ==
    [op |-> op, h |-> h, mode |-> mode, intensity |-> intensity, ret |-> ret]

\* the ramp-set calls of a log, as <<target duty, time>> pairs
RampsOf(log) ==
    LET idx == {i \in 1..Len(log) : log[i].fn = "ledc_set_fade_with_time"}
        F[i \in 0..Len(log)] ==
            IF i = 0 THEN <<>>
            ELSE IF i \in idx THEN Append(F[i - 1], <<log[i].duty, log[i].time>>)
            ELSE F[i - 1]
    IN  F[Len(log)]

Capped(s) == IF Len(s) <= MaxRamps THEN s ELSE SubSeq(s, 1, MaxRamps)

Ctx == [d |-> drv, log |-> <<>>]

\* the tasks that call the API; task t passes its own led_t object, handle t
Tasks == {1, 2}

\* a task between two calls: pc is the line of led.c it stands at, q the
\* <<gpio, mode, time, intensity>> arguments of its call, ret the local ret
IdleTask == [pc |-> "idle", q |-> <<GPIO_OK, FADE_MODE, 0, 0>>, ret |-> ESP_OK]

Init ==
    /\ leds_num = 0
    /\ is_installed = FALSE
    /\ me = [h \in Handles |-> FreshLed]
    /\ registered = {}
    /\ drv \in {[installed |-> b, timer_cfgs |-> 0, install_calls |-> 0,
                 cb |-> [ch \in Channels |-> NoHandle],
                 inflight |-> {}, pending |-> {}, doubled |-> FALSE]
                : b \in BOOLEAN}
    /\ aborted = FALSE
    /\ lastop = Op("none", NoHandle, FADE_MODE, 0, ESP_OK)
    /\ calls = <<>>
    /\ fg = [h \in Handles |-> NoCall]
    /\ ramps = [h \in Handles |-> <<>>]
    /\ fadeUsed = FALSE
    /\ task = [t \in Tasks |-> IdleTask]

\* led_init on an object that is not registered yet; prior is the content
\* of its mode field when the object has never been written.
LedInit(h, gpio, mode, time, intensity, prior, F) ==
    /\ ~aborted
    /\ h \notin registered
    /\ IF me[h].mode = Uninit THEN TRUE ELSE prior = me[h].mode
    /\ \E r \in {led_init(me[h], prior, h, gpio, mode, time, intensity, Ctx,
                          is_installed, leds_num, F)} :
           /\ r.c.d.timer_cfgs <= MaxDrvCalls /\ r.c.d.install_calls <= MaxDrvCalls
           /\ me' = [me EXCEPT ![h] = r.me]
           /\ leds_num' = r.n
           /\ is_installed' = r.inst
           /\ registered' = IF r.n # leds_num THEN registered \cup {h} ELSE registered
           /\ drv' = r.c.d
           /\ aborted' = (r.ret = ABORT)
           /\ lastop' = Op("led_init", h, mode, intensity, r.ret)
           /\ calls' = r.c.log
           /\ fg' = [fg EXCEPT ![h] = FgCall("led_init", r.ret, me[h].state)]
           /\ ramps' = [ramps EXCEPT ![h] = Capped(RampsOf(r.c.log))]
           /\ fadeUsed' = (fadeUsed \/ mode = FADE_MODE)
    /\ UNCHANGED task

LedStart(h, F) ==
    /\ ~aborted
    /\ h \in registered
    /\ \E r \in {led_start(me[h], Ctx, F)} :
           /\ me' = [me EXCEPT ![h] = r.me]
           /\ drv' = r.c.d
           /\ lastop' = Op("led_start", h, me[h].mode, 0, r.ret)
           /\ calls' = r.c.log
           /\ fg' = [fg EXCEPT ![h] = FgCall("led_start", r.ret, me[h].state)]
           /\ ramps' = [ramps EXCEPT ![h] = Capped(RampsOf(r.c.log))]
    /\ UNCHANGED <<leds_num, is_installed, registered, aborted, fadeUsed, task>>

LedStop(h, F) ==
    /\ ~aborted
    /\ h \in registered
    /\ \E r \in {led_stop(me[h], Ctx, F)} :
           /\ me' = [me EXCEPT ![h] = r.me]
           /\ drv' = r.c.d
           /\ lastop' = Op("led_stop", h, me[h].mode, 0, r.ret)
           /\ calls' = r.c.log
           /\ fg' = [fg EXCEPT ![h] = FgCall("led_stop", r.ret, me[h].state)]
           /\ ramps' = [ramps EXCEPT ![h] = Capped(RampsOf(r.c.log))]
    /\ UNCHANGED <<leds_num, is_installed, registered, aborted, fadeUsed, task>>

LedSet(h, gpio, mode, time, intensity, F) ==
    /\ ~aborted
    /\ h \in registered
    /\ \E r \in {led_set(me[h], h, gpio, mode, time, intensity, Ctx, is_installed, F)} :
           /\ r.c.d.install_calls <= MaxDrvCalls
           /\ me' = [me EXCEPT ![h] = r.me]
           /\ is_installed' = r.inst
           /\ drv' = r.c.d
           /\ lastop' = Op("led_set", h, mode, intensity, r.ret)
           /\ calls' = r.c.log
           /\ fg' = [fg EXCEPT ![h] = FgCall("led_set", r.ret, me[h].state)]
           /\ ramps' = [ramps EXCEPT ![h] = Capped(RampsOf(r.c.log))]
           /\ fadeUsed' = (fadeUsed \/ mode = FADE_MODE)
    /\ UNCHANGED <<leds_num, registered, aborted, task>>

\* The hardware finishes the ramp in flight on channel ch and raises the
\* fade-end interrupt when a callback is registered for the channel.
RampComplete(ch) ==
    /\ ~aborted
    /\ ch \in drv.inflight
    /\ drv' = [drv EXCEPT !.inflight = @ \ {ch},
                          !.pending = IF drv.cb[ch] # NoHandle THEN @ \cup {ch} ELSE @]
    /\ lastop' = Op("ramp_complete", drv.cb[ch], FADE_MODE, 0, ESP_OK)
    /\ calls' = <<>>
    /\ UNCHANGED <<leds_num, is_installed, me, registered, aborted, fg, ramps,
                   fadeUsed, task>>

\* The driver delivers the pending fade-end notification of channel ch to
\* fade_end_cb with the led_t registered for it (led.c:160-163, 340-343).
FadeEnd(ch, F) ==
    /\ ~aborted
    /\ ch \in drv.pending
    /\ \E h \in {drv.cb[ch]} :
       \E r \in {fade_end_cb(me[h], [d |-> [drv EXCEPT !.pending = @ \ {ch}],
                                     log |-> <<>>], F)} :
           /\ me' = [me EXCEPT ![h] = r.me]
           /\ drv' = r.c.d
           /\ lastop' = Op("fade_end_cb", h, me[h].mode, 0, r.ret)
           /\ calls' = r.c.log
           /\ ramps' = [ramps EXCEPT ![h] = Capped(@ \o RampsOf(r.c.log))]
    /\ UNCHANGED <<leds_num, is_installed, registered, aborted, fg, fadeUsed,
                   task>>

\* The full API on one led_t object.
Active == {1}

Next ==
    \/ \E h \in Active, q \in Requests, prior \in Modes, F \in InitFaults :
          LedInit(h, q[1], q[2], q[3], q[4], prior, F)
    \/ \E h \in Active, F \in StartFaults : LedStart(h, F)
    \/ \E h \in Active, F \in StopFaults : LedStop(h, F)
    \/ \E h \in Active, q \in Requests, F \in SetFaults :
          LedSet(h, q[1], q[2], q[3], q[4], F)
    \/ \E ch \in Channels : RampComplete(ch)
    \/ \E ch \in Channels, F \in CbFaults : FadeEnd(ch, F)

Spec == Init /\ [][Next]_vars

\* Registration alone, over LED_MAX_NUM + 1 objects that start zeroed (mode
\* field 0 = FADE_MODE), each passed to led_init until it is registered and
\* taken in order: which object is registered next makes no difference.
NextHandle ==
    IF registered = Handles THEN NoHandle
    ELSE CHOOSE h \in Handles \ registered : \A k \in Handles \ registered : h <= k

RegRequests ==
    {<<GPIO_OK, FADE_MODE, 500, 100>>, <<GPIO_OK, CONTINUOUS_MODE, 500, 100>>,
     <<GPIO_NUM_MAX, FADE_MODE, 500, 100>>, <<GPIO_OK, FADE_MODE, 500, 101>>}

NextReg ==
    \E q \in RegRequests, F \in InitFaults :
        LedInit(NextHandle, q[1], q[2], q[3], q[4], FADE_MODE, F)

SpecReg == Init /\ [][NextReg]_vars

\* Two led_t objects side by side, registered in either order and then
\* driven through the whole API while the driver accepts every call.
Pair == {1, 2}

PairRequests ==
    {<<GPIO_OK, FADE_MODE, 500, 25>>, <<GPIO_OK, CONTINUOUS_MODE, 500, 100>>}

NoFault == {}

NextPair ==
    \/ \E h \in Pair, q \in PairRequests :
          LedInit(h, q[1], q[2], q[3], q[4], FADE_MODE, NoFault)
    \/ \E h \in Pair : LedStart(h, NoFault)
    \/ \E h \in Pair : LedStop(h, NoFault)
    \/ \E h \in Pair, q \in PairRequests :
          LedSet(h, q[1], q[2], q[3], q[4], NoFault)
    \/ \E ch \in Channels : RampComplete(ch)
    \/ \E ch \in Channels : FadeEnd(ch, NoFault)

SpecPair == Init /\ [][NextPair]_vars

----------------------------------------------------------------------------
(* led_init statement by statement (led.c:62-171), for two tasks that each *)
(* register their own led_t object while the driver accepts every call.    *)
(* A step is one statement of led.c that reads or writes leds_num,         *)
(* is_installed or the driver; the statements in between touch only the    *)
(* task's own object and are taken together with it.                       *)

\* the arguments of the concurrent led_init calls
InitCalls ==
    {<<GPIO_OK, FADE_MODE, 500, 100>>, <<GPIO_OK, CONTINUOUS_MODE, 500, 100>>}

At(t, line) == task[t].pc = line

\* led.c:62; the local ret holds nothing yet, and is assigned (led.c:132)
\* before it is read
Init_call(t, q) ==
    /\ ~aborted /\ At(t, "idle") /\ t \notin registered
    /\ task' = [task EXCEPT ![t] = [pc |-> "l69", q |-> q, ret |-> ESP_OK]]
    /\ UNCHANGED <<leds_num, is_installed, me, registered, drv, aborted, lastop,
                   calls, fg, ramps, fadeUsed>>

\* led.c:69-82  the capacity test, then malloc
Init_l69(t) ==
    /\ ~aborted /\ At(t, "l69")
    /\ IF CapacityReached(leds_num)
       THEN /\ task' = [task EXCEPT ![t].pc = "l170", ![t].ret = ESP_FAIL]
            /\ me' = me
       ELSE /\ task' = [task EXCEPT ![t].pc = "l85"]
            /\ me' = [me EXCEPT ![t].alloc = TRUE]
    /\ UNCHANGED <<leds_num, is_installed, registered, drv, aborted, lastop,
                   calls, fg, ramps, fadeUsed>>

\* led.c:85  me->ledc_config->channel = leds_num
Init_l85(t) ==
    /\ ~aborted /\ At(t, "l85")
    /\ me' = [me EXCEPT ![t].channel = NextChannel(leds_num)]
    /\ task' = [task EXCEPT ![t].pc = "l89"]
    /\ UNCHANGED <<leds_num, is_installed, registered, drv, aborted, lastop,
                   calls, fg, ramps, fadeUsed>>

\* led.c:89-116  the argument tests and the writes to the task's own object;
\* led.c:105 reads the mode field before led.c:114 has written it
Init_l89(t, prior) ==
    /\ ~aborted /\ At(t, "l89")
    /\ IF me[t].mode = Uninit THEN TRUE ELSE prior = me[t].mode
    /\ \E q \in {task[t].q} :
           IF IntensityInvalid(q[4])
           THEN /\ me' = me
                /\ task' = [task EXCEPT ![t].pc = "l170",
                                        ![t].ret = ESP_ERR_INVALID_ARG]
           ELSE IF GpioInvalid(q[1])
           THEN /\ me' = [me EXCEPT ![t].duty = DutyOf(q[4])]
                /\ task' = [task EXCEPT ![t].pc = "l170",
                                        ![t].ret = ESP_ERR_INVALID_ARG]
           ELSE /\ me' = [me EXCEPT ![t].duty = DutyOf(q[4]),
                                    ![t].gpio_num = q[1],
                                    ![t].intr_type = IntrTypeOf(prior),
                                    ![t].mode = q[2],
                                    ![t].time = q[3],
                                    ![t].state = FALSE]
                /\ task' = [task EXCEPT ![t].pc = "l119"]
    /\ UNCHANGED <<leds_num, is_installed, registered, drv, aborted, lastop,
                   calls, fg, ramps, fadeUsed>>

\* led.c:119-129  if(!leds_num) ledc_timer_config(...)
Init_l119(t) ==
    /\ ~aborted /\ At(t, "l119")
    /\ drv' = IF leds_num = 0 THEN ledc_timer_config(Ctx, NoFault).c.d ELSE drv
    /\ task' = [task EXCEPT ![t].pc = "l132"]
    /\ UNCHANGED <<leds_num, is_installed, me, registered, aborted, lastop,
                   calls, fg, ramps, fadeUsed>>

\* led.c:132-136  ret = ledc_channel_config(...)
Init_l132(t) ==
    /\ ~aborted /\ At(t, "l132")
    /\ \E r \in {ledc_channel_config(Ctx, me[t].channel, NoFault)} :
           /\ drv' = r.c.d
           /\ task' = [task EXCEPT ![t].ret = r.ret,
                                   ![t].pc = IF r.ret # ESP_OK THEN "l170" ELSE "l139"]
    /\ UNCHANGED <<leds_num, is_installed, me, registered, aborted, lastop,
                   calls, fg, ramps, fadeUsed>>

\* led.c:139  ledc_stop(...)
Init_l139(t) ==
    /\ ~aborted /\ At(t, "l139")
    /\ drv' = ledc_stop(Ctx, me[t].channel, NoFault).c.d
    /\ task' = [task EXCEPT ![t].pc = "l142"]
    /\ UNCHANGED <<leds_num, is_installed, me, registered, aborted, lastop,
                   calls, fg, ramps, fadeUsed>>

\* led.c:142  if(intr_type == LEDC_INTR_FADE_END && !is_installed)
Init_l142(t) ==
    /\ ~aborted /\ At(t, "l142")
    /\ task' = [task EXCEPT ![t].pc =
                   IF me[t].intr_type = LEDC_INTR_FADE_END /\ ~is_installed
                   THEN "l143" ELSE "l155"]
    /\ UNCHANGED <<leds_num, is_installed, me, registered, drv, aborted, lastop,
                   calls, fg, ramps, fadeUsed>>

\* led.c:143-149  ret = ledc_fade_func_install(0)
Init_l143(t) ==
    /\ ~aborted /\ At(t, "l143")
    /\ \E r \in {ledc_fade_func_install(Ctx, NoFault)} :
           /\ drv' = r.c.d
           /\ task' = [task EXCEPT ![t].ret = r.ret,
                                   ![t].pc = IF /\ r.ret # ESP_OK
                                                /\ r.ret # ESP_ERR_INVALID_STATE
                                             THEN "l170" ELSE "l151"]
    /\ UNCHANGED <<leds_num, is_installed, me, registered, aborted, lastop,
                   calls, fg, ramps, fadeUsed>>

\* led.c:151  is_installed = true
Init_l151(t) ==
    /\ ~aborted /\ At(t, "l151")
    /\ is_installed' = TRUE
    /\ task' = [task EXCEPT ![t].pc = "l155"]
    /\ UNCHANGED <<leds_num, me, registered, drv, aborted, lastop, calls, fg,
                   ramps, fadeUsed>>

\* led.c:155  if(intr_type == LEDC_INTR_FADE_END && is_installed)
Init_l155(t) ==
    /\ ~aborted /\ At(t, "l155")
    /\ task' = [task EXCEPT ![t].pc =
                   IF me[t].intr_type = LEDC_INTR_FADE_END /\ is_installed
                   THEN "l160" ELSE "l167"]
    /\ UNCHANGED <<leds_num, is_installed, me, registered, drv, aborted, lastop,
                   calls, fg, ramps, fadeUsed>>

\* led.c:160-163  ESP_ERROR_CHECK(ledc_cb_register(...))
Init_l160(t) ==
    /\ ~aborted /\ At(t, "l160")
    /\ \E r \in {ledc_cb_register(Ctx, me[t].channel, t, NoFault)} :
           /\ drv' = r.c.d
           /\ aborted' = (r.ret # ESP_OK)
           /\ task' = [task EXCEPT ![t].pc = "l167"]
    /\ UNCHANGED <<leds_num, is_installed, me, registered, lastop, calls, fg,
                   ramps, fadeUsed>>

\* led.c:167  leds_num++
Init_l167(t) ==
    /\ ~aborted /\ At(t, "l167")
    /\ leds_num' = IncrementLeds(leds_num)
    /\ registered' = registered \cup {t}
    /\ task' = [task EXCEPT ![t].pc = "l170"]
    /\ UNCHANGED <<is_installed, me, drv, aborted, lastop, calls, fg, ramps,
                   fadeUsed>>

\* led.c:72, 92, 100, 135, 148, 170  return
Init_l170(t) ==
    /\ ~aborted /\ At(t, "l170")
    /\ lastop' = Op("led_init", t, task[t].q[2], task[t].q[4], task[t].ret)
    /\ fg' = [fg EXCEPT ![t] = FgCall("led_init", task[t].ret, FALSE)]
    /\ fadeUsed' = (fadeUsed \/ task[t].q[2] = FADE_MODE)
    /\ task' = [task EXCEPT ![t].pc = "done"]
    /\ UNCHANGED <<leds_num, is_installed, me, registered, drv, aborted, calls,
                   ramps>>

NextInit2 ==
    \E t \in Tasks :
        \/ \E q \in InitCalls : Init_call(t, q)
        \/ Init_l69(t)
        \/ Init_l85(t)
        \/ \E prior \in Modes : Init_l89(t, prior)
        \/ Init_l119(t)
        \/ Init_l132(t)
        \/ Init_l139(t)
        \/ Init_l142(t)
        \/ Init_l143(t)
        \/ Init_l151(t)
        \/ Init_l155(t)
        \/ Init_l160(t)
        \/ Init_l167(t)
        \/ Init_l170(t)

SpecInit2 == Init /\ [][NextInit2]_vars

----------------------------------------------------------------------------
(* led_set statement by statement (led.c:274-363), called by task 1 on its *)
(* registered object while the fade-end interrupt may run fade_end_cb      *)
(* between any two statements.  A step is an argument test together with   *)
(* the field write that follows it; from led.c:313 on, where the fields    *)
(* are written, the call runs to its return in one step.                   *)

\* two requests that differ in both duty and time
PreemptRequests ==
    {<<GPIO_OK, FADE_MODE, 500, 25>>, <<GPIO_OK, FADE_MODE, 1000, 100>>}

\* led_set returns ret to task t after the driver calls of log
Set_return(t, ret, log) ==
    /\ lastop' = Op("led_set", t, task[t].q[2], task[t].q[4], ret)
    /\ calls' = log
    /\ fg' = [fg EXCEPT ![t] = FgCall("led_set", ret, me[t].state)]
    /\ ramps' = [ramps EXCEPT ![t] = Capped(RampsOf(log))]
    /\ task' = [task EXCEPT ![t].pc = "idle"]

\* led_set goes on to the statement at line
Set_goto(t, line) ==
    /\ task' = [task EXCEPT ![t].pc = line]
    /\ UNCHANGED <<lastop, calls, fg, ramps>>

\* led.c:274
Set_call(t, q) ==
    /\ ~aborted /\ At(t, "idle") /\ t \in registered
    /\ task' = [task EXCEPT ![t] = [pc |-> "l279", q |-> q, ret |-> ESP_OK]]
    /\ fadeUsed' = (fadeUsed \/ q[2] = FADE_MODE)
    /\ UNCHANGED <<leds_num, is_installed, me, registered, drv, aborted, lastop,
                   calls, fg, ramps>>

\* led.c:279-285  the gpio test, me->ledc_config->gpio_num = gpio
Set_l279(t) ==
    /\ ~aborted /\ At(t, "l279")
    /\ IF GpioInvalid(task[t].q[1])
       THEN me' = me /\ Set_return(t, ESP_ERR_INVALID_ARG, <<>>)
       ELSE me' = [me EXCEPT ![t].gpio_num = task[t].q[1]] /\ Set_goto(t, "l287")
    /\ UNCHANGED <<leds_num, is_installed, registered, drv, aborted, fadeUsed>>

\* led.c:287-293  the intensity test, me->ledc_config->duty = intensity * 80
Set_l287(t) ==
    /\ ~aborted /\ At(t, "l287")
    /\ IF IntensityInvalid(task[t].q[4])
       THEN me' = me /\ Set_return(t, ESP_ERR_INVALID_ARG, <<>>)
       ELSE me' = [me EXCEPT ![t].duty = DutyOf(task[t].q[4])] /\ Set_goto(t, "l295")
    /\ UNCHANGED <<leds_num, is_installed, registered, drv, aborted, fadeUsed>>

\* led.c:295-301  the mode test, me->mode = mode
Set_l295(t) ==
    /\ ~aborted /\ At(t, "l295")
    /\ IF task[t].q[2] # FADE_MODE /\ task[t].q[2] # CONTINUOUS_MODE
       THEN me' = me /\ Set_return(t, ESP_ERR_INVALID_ARG, <<>>)
       ELSE me' = [me EXCEPT ![t].mode = task[t].q[2]] /\ Set_goto(t, "l303")
    /\ UNCHANGED <<leds_num, is_installed, registered, drv, aborted, fadeUsed>>

\* led.c:303-308  the interrupt type, from me->mode
Set_l303(t) ==
    /\ ~aborted /\ At(t, "l303")
    /\ me' = [me EXCEPT ![t].intr_type = IntrTypeOf(me[t].mode)]
    /\ Set_goto(t, "l310")
    /\ UNCHANGED <<leds_num, is_installed, registered, drv, aborted, fadeUsed>>

\* led.c:310  me->time = time
Set_l310(t) ==
    /\ ~aborted /\ At(t, "l310")
    /\ me' = [me EXCEPT ![t].time = task[t].q[3]]
    /\ Set_goto(t, "l313")
    /\ UNCHANGED <<leds_num, is_installed, registered, drv, aborted, fadeUsed>>

\* led.c:313-362  ledc_stop, the fade service, led_start, return
Set_l313(t, F) ==
    /\ ~aborted /\ At(t, "l313")
    /\ \E r \in {led_set_hw(me[t], t, Ctx, is_installed, F)} :
           /\ r.c.d.install_calls <= MaxDrvCalls
           /\ me' = [me EXCEPT ![t] = r.me]
           /\ is_installed' = r.inst
           /\ drv' = r.c.d
           /\ Set_return(t, r.ret, r.c.log)
    /\ UNCHANGED <<leds_num, registered, aborted, fadeUsed>>

\* the task that calls the API in this specification
Caller == 1

NextPreempt ==
    \/ \E q \in PreemptRequests :
          At(Caller, "idle") /\ LedInit(Caller, q[1], q[2], q[3], q[4], FADE_MODE, NoFault)
    \/ At(Caller, "idle") /\ LedStart(Caller, NoFault)
    \/ \E q \in PreemptRequests : Set_call(Caller, q)
    \/ Set_l279(Caller)
    \/ Set_l287(Caller)
    \/ Set_l295(Caller)
    \/ Set_l303(Caller)
    \/ Set_l310(Caller)
    \/ Set_l313(Caller, NoFault)
    \/ \E ch \in Channels : RampComplete(ch)
    \/ \E ch \in Channels : FadeEnd(ch, NoFault)

SpecPreempt == Init /\ [][NextPreempt]_vars

----------------------------------------------------------------------------
(* A fade left to itself: the instance is set up and started while nothing *)
(* is in flight, and from then on only the hardware and fade_end_cb act.   *)
(* Every ramp in flight completes and every notification raised is         *)
(* delivered: the weak fairness of Completion and Notification.            *)

FadeRequests ==
    {<<GPIO_OK, FADE_MODE, t, i>> : t \in {500, 1000}, i \in {25, 50, 100}}

\* no ramp is in flight and no notification is waiting
Quiet == drv.inflight = {} /\ drv.pending = {}

Completion == \E ch \in Channels : RampComplete(ch)

Notification == \E ch \in Channels : FadeEnd(ch, NoFault)

NextFade ==
    \/ \E q \in FadeRequests, prior \in Modes :
          Quiet /\ LedInit(Caller, q[1], q[2], q[3], q[4], prior, NoFault)
    \/ Quiet /\ LedStart(Caller, NoFault)
    \/ \E q \in FadeRequests :
          Quiet /\ LedSet(Caller, q[1], q[2], q[3], q[4], NoFault)
    \/ Completion
    \/ Notification

SpecFade ==
    Init /\ [][NextFade]_vars /\ WF_vars(Completion) /\ WF_vars(Notification)

----------------------------------------------------------------------------
(* Properties *)

MAX_DUTY == 8191

IsRampCall(e) == e.fn \in {"ledc_set_fade_with_time", "ledc_fade_start"}

\* the last step was operation op
Ran(op) == lastop.op = op

\* C1: after led_set puts an instance whose toggle state is 0 into FADE_MODE
\* with duty d and period p, the first three ramp-set calls for its channel
\* (the one of led_set and those of the next two fade-end notifications) are
\* (d, p), (0, p), (d, p).
C1_FadeRampSequence ==
    \A h \in registered :
        (/\ fg[h].op = "led_set" /\ fg[h].ok /\ ~fg[h].state0
         /\ me[h].mode = FADE_MODE
         /\ Len(ramps[h]) >= 3)
        => /\ ramps[h][1] = <<me[h].duty, me[h].time>>
           /\ ramps[h][2] = <<0, me[h].time>>
           /\ ramps[h][3] = <<me[h].duty, me[h].time>>

\* C2: a fade-end notification delivered after a successful led_stop on the
\* same instance (no foreground call on it in between) issues no ramp-set
\* and no fade-start call.
C2_StopDiscardsLateNotification ==
    (Ran("fade_end_cb") /\ fg[lastop.h].op = "led_stop" /\ fg[lastop.h].ok)
    => \A i \in 1..Len(calls) : ~IsRampCall(calls[i])

\* C3: no ramp is ever started on a channel whose previous ramp is still in
\* flight (neither completed nor stopped).
C3_OneSegmentInFlight == ~drv.doubled

\* C4: over any sequence of led_init calls, failing ones included, the
\* shared timer is configured at most once, and exactly once as soon as an
\* instance is registered.
C4_TimerConfiguredOnce ==
    /\ drv.timer_cfgs <= 1
    /\ leds_num > 0 => drv.timer_cfgs = 1

\* C5: the number of registered instances never exceeds LED_MAX_NUM, and a
\* led_init step taken with LED_MAX_NUM instances registered returns
\* ESP_FAIL, leaves leds_num and the instance alone and issues no driver call.
C5_CapacityRejects ==
    /\ [](leds_num <= LED_MAX_NUM /\ Cardinality(registered) <= LED_MAX_NUM)
    /\ [][(leds_num = LED_MAX_NUM /\ lastop'.op = "led_init")
          => (/\ lastop'.ret = ESP_FAIL
              /\ leds_num' = leds_num
              /\ registered' = registered
              /\ is_installed' = is_installed
              /\ me' = me
              /\ drv' = drv
              /\ calls' = <<>>)]_vars

C5_Witness ==
    /\ leds_num = LED_MAX_NUM
    /\ Ran("led_init") /\ lastop.ret = ESP_FAIL /\ lastop.h \notin registered
    /\ calls = <<>>

\* C6: the channels of the registered instances are pairwise distinct, lie in
\* [0, leds_num), and the k-th registered instance holds channel k - 1
\* (objects are registered in handle order, so that is handle k); leds_num
\* counts the registered instances and is at most LED_MAX_NUM.
C6_ChannelsDistinct ==
    /\ leds_num = Cardinality(registered) /\ leds_num <= LED_MAX_NUM
    /\ \A h \in registered : me[h].channel \in 0..(leds_num - 1)
    /\ \A h \in registered : me[h].channel = h - 1
    /\ \A h1, h2 \in registered : h1 # h2 => me[h1].channel # me[h2].channel

\* the last of LED_MAX_NUM channels handed out, in a run where a led_init
\* call failed after the timer was configured
C6_Witness ==
    /\ Cardinality(registered) = LED_MAX_NUM
    /\ drv.timer_cfgs > 1
    /\ Ran("led_init") /\ lastop.ret = ESP_OK
    /\ me[lastop.h].channel = LED_MAX_NUM - 1

\* C7: after a led_init call that requested FADE_MODE and returned ESP_OK,
\* the fade service is installed and fade_end_cb is registered with the
\* instance for its channel.
C7_FadeInitRegistersCallback ==
    (Ran("led_init") /\ lastop.mode = FADE_MODE /\ lastop.ret = ESP_OK)
    => /\ drv.installed
       /\ drv.cb[me[lastop.h].channel] = lastop.h

\* C8: ledc_fade_func_install is called at most once, never before some
\* led_init / led_set call has requested FADE_MODE, and the service is
\* installed whenever a ramp is submitted to the driver.
C8_InstallOnceLazily ==
    /\ drv.install_calls <= 1
    /\ drv.install_calls > 0 => fadeUsed
    /\ \A i \in 1..Len(calls) : IsRampCall(calls[i]) => drv.installed

\* C9: a led_init / led_set call that returns ESP_OK leaves the duty
\* floor(intensity * MaxDuty / 100), MaxDuty = 8191, in the channel
\* configuration.
C9_DutyScale ==
    ((Ran("led_init") \/ Ran("led_set")) /\ lastop.ret = ESP_OK)
    => me[lastop.h].duty = (lastop.intensity * MAX_DUTY) \div MAX_INTENSITY

\* C10: a led_set call with intensity > 100 returns ESP_ERR_INVALID_ARG and
\* issues no driver call.
C10_SetRejectsIntensity ==
    (Ran("led_set") /\ lastop.intensity > MAX_INTENSITY)
    => /\ lastop.ret = ESP_ERR_INVALID_ARG
       /\ calls = <<>>

\* led_set with intensity 101 on a pin in range, rejected while a fade of
\* the instance is in flight
C10_Witness ==
    /\ Ran("led_set") /\ lastop.intensity > MAX_INTENSITY
    /\ lastop.ret = ESP_ERR_INVALID_ARG
    /\ me[lastop.h].gpio_num = GPIO_OK
    /\ me[lastop.h].channel \in drv.inflight

\* C13: a fade-end notification processed after a successful led_set has
\* switched the instance to CONTINUOUS_MODE is stale: fade_end_cb issues no
\* ramp-set and no fade-start call for the channel, so the continuous duty
\* stays in effect.
C13_StaleNotificationDiscarded ==
    (/\ Ran("fade_end_cb") /\ me[lastop.h].mode = CONTINUOUS_MODE
     /\ fg[lastop.h].op = "led_set" /\ fg[lastop.h].ok)
    => \A i \in 1..Len(calls) : ~IsRampCall(calls[i])

\* C15: the toggle state of a registered instance changes only in
\* fade_end_cb: a led_start, led_stop or led_set step, whatever it returns,
\* and a step of the hardware leave it as it was, and a fade_end_cb step
\* flips the state of the notified instance once and of no other.
C15_ToggleOnlyInCallback ==
    [][\A h \in registered :
          IF lastop'.op = "fade_end_cb" /\ lastop'.h = h
          THEN me'[h].state = ~me[h].state
          ELSE me'[h].state = me[h].state]_vars

\* a led_set call that failed on an instance whose toggle state a
\* notification had flipped to 1: the state is still 1
C15_Witness ==
    /\ Ran("led_set") /\ lastop.ret # ESP_OK
    /\ lastop.h \in registered
    /\ me[lastop.h].state

\* C16: when the driver rejects the ramp-set call of fade_end_cb, that
\* notification starts no fade: the rejected ledc_set_fade_with_time is the
\* only driver call the callback issues.
C16_RejectedRampNotStarted ==
    (/\ Ran("fade_end_cb")
     /\ \E i \in 1..Len(calls) : /\ calls[i].fn = "ledc_set_fade_with_time"
                                 /\ calls[i].ret # ESP_OK)
    => /\ Len(calls) = 1
       /\ \A i \in 1..Len(calls) : calls[i].fn # "ledc_fade_start"

\* the foreground functions of led.h
Foreground == {"led_init", "led_set", "led_start", "led_stop"}

\* C17: a foreground call during which the driver rejected a call returns a
\* code other than ESP_OK.
C17_RejectionsSurfaced ==
    (/\ lastop.op \in Foreground
     /\ \E i \in 1..Len(calls) : calls[i].ret # ESP_OK)
    => lastop.ret # ESP_OK

\* C18: led_init returns ESP_OK exactly when it registered the instance
\* (incremented leds_num): a call that returns another code registers
\* nothing, and a call that registers returns ESP_OK.
C18_InitOkIffRegistered ==
    Ran("led_init") => (lastop.ret = ESP_OK <=> lastop.h \in registered)

\* C19: a led_set call that rejects its arguments (it returns
\* ESP_ERR_INVALID_ARG without a driver call) leaves every field of the
\* instance (gpio, duty, mode, time, toggle state among them) as it found it.
C19_RejectedSetChangesNothing ==
    [][(/\ lastop'.op = "led_set" /\ lastop'.ret = ESP_ERR_INVALID_ARG
        /\ calls' = <<>>)
       => me'[lastop'.h] = me[lastop'.h]]_vars

\* the names of the duty calls of a log, in the order they were issued
DutyCalls(log) ==
    SelectSeq([i \in 1..Len(log) |-> log[i].fn],
              LAMBDA fn : fn \in {"ledc_set_duty", "ledc_update_duty"})

\* C12: a led_set, led_start, led_stop or fade_end_cb step on instance A
\* issues driver calls for A's channel only (the fade-service install takes
\* no channel) and changes no field of any other instance; when led_set or
\* led_start returns ESP_OK with A in CONTINUOUS_MODE, the driver received
\* ledc_set_duty then ledc_update_duty for A's channel and no ramp call.
C12_InstancesIndependent ==
    [][lastop'.op \in {"led_set", "led_start", "led_stop", "fade_end_cb"}
       => /\ \A i \in 1..Len(calls') :
                 calls'[i].ch \in {me'[lastop'.h].channel, NoChannel}
          /\ \A b \in Handles \ {lastop'.h} : me'[b] = me[b]
          /\ (/\ lastop'.op \in {"led_set", "led_start"}
              /\ lastop'.ret = ESP_OK
              /\ me'[lastop'.h].mode = CONTINUOUS_MODE)
             => /\ DutyCalls(calls') = <<"ledc_set_duty", "ledc_update_duty">>
                /\ \A i \in 1..Len(calls') : ~IsRampCall(calls'[i])]_vars

\* led_set has put the instance on channel 1 at a continuous duty while the
\* other instance, on channel 0, has a ramp of its own in flight
C12_Witness ==
    /\ registered = Pair
    /\ Ran("led_set") /\ lastop.ret = ESP_OK
    /\ me[lastop.h].mode = CONTINUOUS_MODE /\ me[lastop.h].channel = 1
    /\ \E b \in Pair \ {lastop.h} :
           /\ me[b].mode = FADE_MODE /\ me[b].channel = 0
           /\ me[b].channel \in drv.inflight
           /\ me[b].state

\* C14: while two tasks run led_init concurrently, the shared timer is
\* configured at most once, ledc_fade_func_install is called at most once
\* and the instances registered so far hold pairwise distinct channels.
C14_ConcurrentInitGuarded ==
    /\ drv.timer_cfgs <= 1
    /\ drv.install_calls <= 1
    /\ \A h1, h2 \in registered : h1 # h2 => me[h1].channel # me[h2].channel

\* the <<duty, time>> pairs that one led_init / led_set call writes together
RequestedPairs == {<<DutyOf(q[4]), q[3]>> : q \in PreemptRequests}

\* C20: every ramp that fade_end_cb arms towards the duty of the instance
\* uses a <<duty, time>> pair that one single led_init / led_set call wrote,
\* also when the callback runs between two field writes of led_set.
C20_RampPairFromOneCall ==
    Ran("fade_end_cb")
    => \A i \in 1..Len(calls) :
           (calls[i].fn = "ledc_set_fade_with_time" /\ calls[i].duty # 0)
           => <<calls[i].duty, calls[i].time>> \in RequestedPairs

\* a ramp of instance h is in flight and its end will be notified to h
Armed(h) ==
    /\ h \in registered
    /\ me[h].channel \in drv.inflight
    /\ drv.cb[me[h].channel] = h

\* the last step was fade_end_cb on h and it issued exactly one re-arm: one
\* accepted ramp-set towards duty over the period of h, then one accepted
\* fade-start, both on the channel of h
RampTo(h, duty) ==
    /\ Ran("fade_end_cb") /\ lastop.h = h
    /\ calls = <<Entry("ledc_set_fade_with_time", me[h].channel, duty, me[h].time,
                       ESP_OK),
                 Entry("ledc_fade_start", me[h].channel, 0, 0, ESP_OK)>>

\* C11: with the instance in FADE_MODE and no foreground call after the fade
\* was started, every fade-end notification issues exactly one re-arm, to 0
\* or to the duty of the instance; and when every ramp completes and every
\* notification is delivered, a fade once armed is re-armed to 0 infinitely
\* often and to the duty infinitely often.
C11_FadeRearmsForever ==
    /\ [](Ran("fade_end_cb")
          => RampTo(lastop.h, IF me[lastop.h].state THEN me[lastop.h].duty ELSE 0))
    /\ [](Armed(Caller) => /\ []<>RampTo(Caller, 0)
                           /\ []<>RampTo(Caller, me[Caller].duty))

\* the second notification after led_set started the fade has re-armed the
\* ramp down to 0
C11_Witness ==
    /\ RampTo(Caller, 0)
    /\ fg[Caller].op = "led_set" /\ fg[Caller].ok
    /\ Len(ramps[Caller]) >= 3
    /\ Armed(Caller)

====
